---- MODULE Spec2Model ----
(***************************************************************************)
(* Push-to-talk voice input (claude_code_voice_module.py).                 *)
(*                                                                         *)
(* One pynput listener thread runs VoiceInput._on_key_press and            *)
(* VoiceInput._on_key_release; every accepted press starts a daemon thread *)
(* running VoiceInput._record_and_transcribe, which calls                  *)
(* AudioRecorder.record_audio, WhisperTranscriber.transcribe and the       *)
(* registered callback on_text.                                            *)
(*                                                                         *)
(* Time is counted in ticks.  A blocking stream.read takes chunk_duration  *)
(* ticks; every other statement of the capture loop takes no time (Tick is *)
(* disabled while a worker stands between two reads).                      *)
(***************************************************************************)
EXTENDS Integers, Sequences, FiniteSets, TLC

(***************************************************************************)
(* Bounds of the model.                                                    *)
(***************************************************************************)
\* number of thread slots: at most MaxWorkers worker threads are alive at once
MaxWorkers == 2
\* ticks one blocking stream.read of chunk_size frames takes
ChunkTicks == 1
\* VoiceConfig.silence_duration, in ticks
SilenceTicks == 2
\* VoiceConfig.max_recording_time, in ticks
MaxRecTicks == 3

Workers == 1..MaxWorkers

(***************************************************************************)
(* VoiceConfig                                                             *)
(***************************************************************************)
\* a string is a sequence of one-character strings
push_to_talk_key == <<"r","i","g","h","t","_","s","h","i","f","t">>
silence_threshold == 100

\* the timing fields of a VoiceConfig and the time one stream.read blocks, in
\* one unit of time
Config(chunk, silence, maxrec) ==
    [chunk_duration |-> chunk, silence_duration |-> silence,
     max_recording_time |-> maxrec]

\* the configuration of the bounded model, in ticks
BoundedConfig == Config(ChunkTicks, SilenceTicks, MaxRecTicks)

\* the defaults of VoiceConfig in tenths of a second (silence_duration 1.5 s,
\* max_recording_time 30.0 s), with reads that block for 0.1 s
DefaultConfig == Config(1, 15, 300)

\* RMS levels a chunk read from the device can have
Levels == {50, 100}

(***************************************************************************)
(* Strings: lower(), replace(), split(), strip()                           *)
(***************************************************************************)
LowerChar(c) ==
    CASE c = "R" -> "r"
      [] c = "S" -> "s"
      [] c = "L" -> "l"
      [] c = "A" -> "a"
      [] OTHER -> c

Lower(s) == [i \in 1..Len(s) |-> LowerChar(s[i])]

\* a replace() that leaves the string as it is
Replace_Nothing(s, a, b) == s

Replace(s, a, b) == [i \in 1..Len(s) |-> IF s[i] = a THEN b ELSE s[i]]

IsSpace(c) == c = " "

\* str.split(): the maximal runs of non-whitespace characters, in order
RECURSIVE SplitFrom(_, _, _)
SplitFrom(s, i, word) ==
    IF i > Len(s)
    THEN IF word = <<>> THEN <<>> ELSE <<word>>
    ELSE IF IsSpace(s[i])
         THEN (IF word = <<>> THEN <<>> ELSE <<word>>) \o SplitFrom(s, i + 1, <<>>)
         ELSE SplitFrom(s, i + 1, Append(word, s[i]))

Split(s) == SplitFrom(s, 1, <<>>)

RECURSIVE LStrip(_)
LStrip(s) ==
    IF s # <<>> /\ IsSpace(Head(s)) THEN LStrip(Tail(s)) ELSE s

RECURSIVE RStrip(_)
RStrip(s) ==
    IF s # <<>> /\ IsSpace(s[Len(s)]) THEN RStrip(SubSeq(s, 1, Len(s) - 1)) ELSE s

Strip(s) == RStrip(LStrip(s))

(***************************************************************************)
(* Key events.  A pynput KeyCode has the attribute char (possibly None,    *)
(* modelled as the empty string) and no name; a pynput Key has a name and  *)
(* no char.                                                                *)
(***************************************************************************)
CharKey(c) == [kind |-> "char", val |-> c]
NamedKey(n) == [kind |-> "name", val |-> n]

Keys ==
    { NamedKey(<<"s","h","i","f","t","_","r">>),
      NamedKey(<<"s","h","i","f","t","_","l">>),
      CharKey(<<"a">>) }

\* VoiceInput._matches_hotkey, with the configured hotkey as a parameter
matches_hotkey(hotkey_cfg, key) ==
    LET hotkey == Lower(hotkey_cfg)
    IN  IF key.kind = "char" /\ key.val # <<>>
        THEN Lower(key.val) = hotkey
        ELSE IF key.kind = "name"
             THEN LET key_name == Lower(key.val)
                      hotkey_parts == Split(Replace(hotkey, "_", " "))
                  IN  \/ key_name = hotkey
                      \/ /\ Len(hotkey_parts) = 2
                         /\ hotkey_parts[1] \in {<<"r","i","g","h","t">>, <<"l","e","f","t">>}
                         /\ LET suffix == IF hotkey_parts[1] = <<"r","i","g","h","t">>
                                          THEN "r" ELSE "l"
                                normalized == hotkey_parts[2] \o <<"_", suffix>>
                            IN  key_name = normalized
             ELSE FALSE

MatchingKeys == {k \in Keys : matches_hotkey(push_to_talk_key, k)}

(***************************************************************************)
(* State                                                                   *)
(***************************************************************************)
VARIABLES
    cfg,               \* VoiceInput.config: the timing fields of the VoiceConfig
    probe,             \* a call of _matches_hotkey: its arguments and its result
    active,            \* VoiceInput.active
    listener,          \* VoiceInput.listener: "none", "running", "stopped"
    recording,         \* VoiceInput.recording (the is-recording flag)
    auto_submit,       \* VoiceConfig.auto_submit
    integration_mode,  \* VoiceInput.integration_mode (absent reads as FALSE)
    has_should_continue,        \* hasattr(recorder, 'should_continue_recording')
    should_continue_recording,  \* AudioRecorder.should_continue_recording
    rec_recording,     \* AudioRecorder.recording
    frames,            \* AudioRecorder.frames: the list of chunks
    pc,                \* position of each worker thread
    stream,            \* per worker: "none", "open", "closed" (record_audio's stream)
    clock,             \* per worker: time.time() - start_time
    silence_start,     \* per worker: None, or the clock value when silence began
    readT,             \* per worker: ticks spent in the current stream.read
    stop,              \* per worker: how the capture loop was left
    audio,             \* per worker: audio_data returned by record_audio
    text,              \* per worker: text returned by transcribe
    delivered,         \* per worker: texts on_text was called with in this cycle
    answer,            \* per worker: the answer given to Confirm.ask in this cycle
    nread,             \* per worker: chunks read from the stream by this call
    lowRun,            \* per worker: consecutive sub-threshold chunks read last
    relSeen            \* per worker: a matching release came since its press, during its capture

vars == <<cfg, probe, active, listener, recording, auto_submit, integration_mode,
          has_should_continue, should_continue_recording, rec_recording, frames,
          pc, stream, clock, silence_start, readT, stop, audio, text,
          delivered, answer, nread, lowRun, relSeen>>

configVars == <<cfg, probe, auto_submit, integration_mode>>
sessionVars == <<active, listener, recording, configVars>>
recorderVars == <<has_should_continue, should_continue_recording, rec_recording, frames>>
captureVars == <<stream, clock, silence_start, readT, stop, nread, lowRun>>
cycleVars == <<audio, text, delivered, answer>>

silence_duration == cfg.silence_duration
max_recording_time == cfg.max_recording_time
chunk_duration == cfg.chunk_duration

\* Python's None for silence_start
None == -1

\* the data of one chunk of chunk_size frames; its content is not modelled
Chunk == "chunk"

\* Optional[bytes]: None, or the chunks joined into one buffer
Absent == [some |-> FALSE, data |-> <<>>]
Bytes(chunks) == [some |-> TRUE, data |-> chunks]
\* Python truth of an Optional[bytes]: neither None nor b''
Truthy(a) == a.some /\ a.data # <<>>

\* a worker thread exists and has not returned or died
Live(w) == pc[w] \notin {"none", "done", "dead"}
LiveWorkers == {w \in Workers : Live(w)}

\* record_audio has been entered and its loop not yet left
InCapture(w) == pc[w] \in {"read", "check"}

(***************************************************************************)
(* VoiceInput.__init__: the state after construction                       *)
(***************************************************************************)
\* no call of _matches_hotkey is under observation
NoProbe == [hotkey |-> <<>>, key |-> CharKey(<<>>), result |-> "none"]

Constructed ==
    /\ active = FALSE
    /\ listener = "none"
    /\ recording = FALSE
    /\ auto_submit \in BOOLEAN
    /\ integration_mode \in BOOLEAN
    /\ has_should_continue = FALSE
    /\ should_continue_recording = FALSE
    /\ rec_recording = FALSE
    /\ frames = <<>>
    /\ pc = [w \in Workers |-> "none"]
    /\ stream = [w \in Workers |-> "none"]
    /\ clock = [w \in Workers |-> 0]
    /\ silence_start = [w \in Workers |-> None]
    /\ readT = [w \in Workers |-> 0]
    /\ stop = [w \in Workers |-> "none"]
    /\ audio = [w \in Workers |-> Absent]
    /\ text = [w \in Workers |-> <<>>]
    /\ delivered = [w \in Workers |-> <<>>]
    /\ answer = [w \in Workers |-> "none"]
    /\ nread = [w \in Workers |-> 0]
    /\ lowRun = [w \in Workers |-> 0]
    /\ relSeen = [w \in Workers |-> FALSE]

Init ==
    /\ cfg = BoundedConfig
    /\ probe = NoProbe
    /\ Constructed

(***************************************************************************)
(* The caller (claude_code_voice_integration.main sets integration_mode    *)
(* before start)                                                           *)
(***************************************************************************)
\* VoiceInput.start
Start ==
    /\ listener = "none"
    /\ active' = TRUE
    /\ listener' = "running"
    /\ UNCHANGED <<recording, configVars>>
    /\ UNCHANGED <<recorderVars, pc, captureVars, cycleVars, relSeen>>

\* VoiceInput.stop, first statement: self.active = False
StopDeactivate ==
    /\ listener = "running"
    /\ active
    /\ active' = FALSE
    /\ UNCHANGED <<listener, recording, configVars>>
    /\ UNCHANGED <<recorderVars, pc, captureVars, cycleVars, relSeen>>

\* VoiceInput.stop, second statement: self.listener.stop()
StopListener ==
    /\ listener = "running"
    /\ ~active
    /\ listener' = "stopped"
    /\ UNCHANGED <<active, recording, configVars>>
    /\ UNCHANGED <<recorderVars, pc, captureVars, cycleVars, relSeen>>

(***************************************************************************)
(* The listener thread                                                     *)
(***************************************************************************)
\* a listener that goes on calling the handlers after listener.stop()
ListenerDelivers_AfterStop == listener # "none"

\* lines 269-273 and 352: the listener calls the handlers from listener.start()
\* until listener.stop()
ListenerDelivers == listener = "running"

\* the thread slot a new worker thread takes
FreeSlots == {w \in Workers : pc[w] = "none"}
NextSlot == CHOOSE w \in FreeSlots : \A v \in FreeSlots : w <= v

\* a handler that forgets the is-recording check
PressGate_NoRecordingCheck == active

\* _on_key_press, line 304: the handler goes on only if this holds
PressGate == active /\ ~recording

\* _on_key_press: the press is accepted and a worker thread is started
Accepts(key) == PressGate /\ key \in MatchingKeys

\* threading.Thread(target=self._record_and_transcribe).start()
SpawnWorker(w) ==
    /\ pc' = [pc EXCEPT ![w] = "start"]
    /\ UNCHANGED <<captureVars, cycleVars, relSeen>>

\* VoiceInput._on_key_press
KeyPress(key) ==
    /\ ListenerDelivers
    /\ IF Accepts(key)
       THEN /\ FreeSlots # {}
            /\ recording' = TRUE
            /\ SpawnWorker(NextSlot)
            /\ UNCHANGED <<active, listener, configVars, recorderVars>>
       ELSE UNCHANGED vars

\* _on_key_release, lines 316-317: the continue-signal after a matching release
ReleaseSignal == IF has_should_continue THEN FALSE ELSE should_continue_recording

\* VoiceInput._on_key_release
KeyRelease(key) ==
    /\ ListenerDelivers
    /\ IF key \in MatchingKeys
       THEN /\ recording' = FALSE
            /\ should_continue_recording' = ReleaseSignal
            /\ relSeen' = [w \in Workers |->
                              relSeen[w] \/ pc[w] \in {"start", "open", "read", "check"}]
            /\ UNCHANGED <<active, listener, configVars>>
            /\ UNCHANGED <<has_should_continue, rec_recording, frames>>
            /\ UNCHANGED <<pc, captureVars, cycleVars>>
       ELSE UNCHANGED vars

(***************************************************************************)
(* A worker thread: VoiceInput._record_and_transcribe                      *)
(***************************************************************************)
\* line 322: self.recorder.should_continue_recording = True
WorkerStart(w) ==
    /\ pc[w] = "start"
    /\ has_should_continue' = TRUE
    /\ should_continue_recording' = TRUE
    /\ pc' = [pc EXCEPT ![w] = "open"]
    /\ UNCHANGED <<sessionVars, rec_recording, frames, captureVars, cycleVars, relSeen>>

\* a loop without the max-duration check
MaxTimeReached_Never(elapsed) == FALSE

\* a max-duration check that fires as soon as the limit is reached
MaxTimeReached_AtLimit(elapsed) == elapsed >= max_recording_time

\* line 134: time.time() - start_time > self.config.max_recording_time
MaxTimeReached(elapsed) == elapsed > max_recording_time

\* lines 132-136, the head of an iteration: how the loop is left there, or "none"
LoopHead(rec, elapsed) ==
    IF ~rec THEN "flag"
    ELSE IF MaxTimeReached(elapsed) THEN "max"
    ELSE "none"

\* the worker leaves the loop at its head, or blocks in stream.read (line 139)
EnterIteration(w, rec, elapsed) ==
    LET how == LoopHead(rec, elapsed)
    IN  /\ pc' = [pc EXCEPT ![w] = IF how = "none" THEN "read" ELSE "finally"]
        /\ stop' = [stop EXCEPT ![w] = how]
        /\ readT' = [readT EXCEPT ![w] = 0]

\* record_audio, lines 113-136: open the stream, reset the frames, start the
\* clock, and enter the first iteration
RecordOpen(w) ==
    /\ pc[w] = "open"
    /\ stream' = [stream EXCEPT ![w] = "open"]
    /\ frames' = <<>>
    /\ rec_recording' = TRUE
    /\ silence_start' = [silence_start EXCEPT ![w] = None]
    /\ clock' = [clock EXCEPT ![w] = 0]
    /\ EnterIteration(w, TRUE, 0)
    /\ UNCHANGED <<sessionVars, has_should_continue, should_continue_recording>>
    /\ UNCHANGED <<nread, lowRun, cycleVars, relSeen>>

\* record_audio, line 113: self.audio.open raises; the thread dies
RecordOpenFails(w) ==
    /\ pc[w] = "open"
    /\ pc' = [pc EXCEPT ![w] = "dead"]
    /\ UNCHANGED <<sessionVars, recorderVars, captureVars, cycleVars, relSeen>>

\* line 153: the chunk counts as silent
IsSilent(level) == level < silence_threshold

\* a silence run that expires as soon as it has lasted silence_duration
SilenceExpired_AtLimit(now, since) == now - since >= silence_duration

\* line 156: the silence run has lasted long enough to stop
SilenceExpired(now, since) == now - since > silence_duration

\* a silence run that a loud chunk does not reset
NextSilenceStart_NoReset(level, now, since) ==
    IF IsSilent(level) /\ since = None THEN now ELSE since

\* lines 153-160: silence_start after a chunk of this level has been read
NextSilenceStart(level, now, since) ==
    IF IsSilent(level)
    THEN IF since = None THEN now ELSE since
    ELSE None

\* lines 153-158: the silence check breaks out of the loop
SilenceStops(level, now, since) ==
    IsSilent(level) /\ since # None /\ SilenceExpired(now, since)

\* lines 139-160: stream.read returns; the chunk is appended; the silence check
ReadChunk(w, level) ==
    /\ pc[w] = "read"
    /\ readT[w] = chunk_duration
    /\ frames' = Append(frames, Chunk)
    /\ nread' = [nread EXCEPT ![w] = @ + 1]
    /\ lowRun' = [lowRun EXCEPT ![w] = IF IsSilent(level) THEN @ + 1 ELSE 0]
    /\ silence_start' = [silence_start EXCEPT
                            ![w] = NextSilenceStart(level, clock[w], silence_start[w])]
    /\ IF SilenceStops(level, clock[w], silence_start[w])
       THEN /\ stop' = [stop EXCEPT ![w] = "silence"]
            /\ pc' = [pc EXCEPT ![w] = "finally"]
       ELSE /\ pc' = [pc EXCEPT ![w] = "check"]
            /\ UNCHANGED stop
    /\ UNCHANGED <<sessionVars, has_should_continue, should_continue_recording, rec_recording>>
    /\ UNCHANGED <<stream, clock, readT, cycleVars, relSeen>>

\* line 139: stream.read raises; the finally clause runs and the thread dies
ReadFails(w) ==
    /\ pc[w] = "read"
    /\ stop' = [stop EXCEPT ![w] = "error"]
    /\ pc' = [pc EXCEPT ![w] = "finally"]
    /\ UNCHANGED <<sessionVars, recorderVars, cycleVars, relSeen>>
    /\ UNCHANGED <<stream, clock, silence_start, readT, nread, lowRun>>

\* line 163: getattr(self, 'should_continue_recording', True)
ContinueSignal == IF has_should_continue THEN should_continue_recording ELSE TRUE

\* lines 163-164, then lines 132-136: the continue-signal check ending an
\* iteration, and the head of the next iteration
CheckContinue(w) ==
    /\ pc[w] = "check"
    /\ IF ~ContinueSignal
       THEN /\ stop' = [stop EXCEPT ![w] = "release"]
            /\ pc' = [pc EXCEPT ![w] = "finally"]
            /\ UNCHANGED readT
       ELSE EnterIteration(w, rec_recording, clock[w])
    /\ UNCHANGED <<sessionVars, recorderVars, cycleVars, relSeen>>
    /\ UNCHANGED <<stream, clock, silence_start, nread, lowRun>>

\* a finally clause that leaves the stream as it is
StreamAfterFinally_Leak(s) == s

\* lines 166-168: finally: stream.stop_stream(); stream.close()
StreamAfterFinally(s) == "closed"

\* line 327: if audio_data
AfterCapture(a) == IF Truthy(a) THEN "transcribe" ELSE "done"

\* lines 166-175: the finally clause, then `if self.frames` (false: return None).
\* The loop's locals (start_time, silence_start) are not read after the loop.
Finally(w) ==
    /\ pc[w] = "finally"
    /\ stream' = [stream EXCEPT ![w] = StreamAfterFinally(@)]
    /\ clock' = [clock EXCEPT ![w] = 0]
    /\ silence_start' = [silence_start EXCEPT ![w] = None]
    /\ readT' = [readT EXCEPT ![w] = 0]
    /\ lowRun' = [lowRun EXCEPT ![w] = 0]
    /\ stop' = [stop EXCEPT ![w] = "none"]
    /\ IF stop[w] = "error"
       THEN /\ pc' = [pc EXCEPT ![w] = "dead"]
            /\ UNCHANGED audio
       ELSE IF frames # <<>>
            THEN /\ pc' = [pc EXCEPT ![w] = "join"]
                 /\ UNCHANGED audio
            ELSE /\ audio' = [audio EXCEPT ![w] = Absent]
                 /\ pc' = [pc EXCEPT ![w] = AfterCapture(Absent)]
    /\ relSeen' = [relSeen EXCEPT ![w] = FALSE]
    /\ UNCHANGED <<sessionVars, recorderVars>>
    /\ UNCHANGED <<nread, text, delivered, answer>>

\* line 174: return b''.join(self.frames)
ReturnJoin(w) ==
    /\ pc[w] = "join"
    /\ audio' = [audio EXCEPT ![w] = Bytes(frames)]
    /\ pc' = [pc EXCEPT ![w] = AfterCapture(Bytes(frames))]
    /\ UNCHANGED <<sessionVars, recorderVars, captureVars, text, delivered, answer, relSeen>>

(***************************************************************************)
(* WhisperTranscriber.transcribe and the delivery of the text              *)
(***************************************************************************)
\* what the recognition model can return as result["text"]
RawTexts == { <<>>, <<" ">>, <<"h","i">>, <<" ","h","i"," ">> }

\* transcribe_local, line 222: result["text"].strip()
transcribe_local(raw) == Strip(raw)

\* transcribe, lines 227-236; None is the empty text here, both are false at line 331
transcribe(audio_data, raw) ==
    IF ~Truthy(audio_data) THEN <<>> ELSE transcribe_local(raw)

\* a delivery that does not test the text
TextOk_Any(t) == TRUE

\* line 331: if text
TextOk(t) == t # <<>>

\* a delivery that never asks
BypassConfirm_Always == TRUE

\* line 337: self.config.auto_submit or getattr(self, 'integration_mode', False)
BypassConfirm == auto_submit \/ integration_mode

\* self.on_text(text)
CallOnText(w, t) == delivered' = [delivered EXCEPT ![w] = Append(@, t)]

\* a worker that returns the session to Idle when its cycle is over
RecordingAtReturn_Cleared == FALSE

\* lines 327-346: no statement of the worker assigns self.recording
RecordingAtReturn == recording

\* the thread returns from _record_and_transcribe; audio_data is not read again
Returned(w) ==
    /\ pc' = [pc EXCEPT ![w] = "done"]
    /\ recording' = RecordingAtReturn
    /\ audio' = [audio EXCEPT ![w] = Absent]
    /\ nread' = [nread EXCEPT ![w] = 0]
    /\ UNCHANGED stop

\* lines 329-346 up to the confirmation prompt
Transcribe(w, raw) ==
    /\ pc[w] = "transcribe"
    /\ LET t == transcribe(audio[w], raw)
       IN  IF TextOk(t)
           THEN /\ text' = [text EXCEPT ![w] = t]
                /\ IF BypassConfirm
                   THEN /\ CallOnText(w, t)
                        /\ Returned(w)
                        /\ UNCHANGED answer
                   ELSE /\ pc' = [pc EXCEPT ![w] = "confirm"]
                        /\ audio' = [audio EXCEPT ![w] = Absent]
                        /\ nread' = [nread EXCEPT ![w] = 0]
                        /\ UNCHANGED <<delivered, answer, stop, recording>>
           ELSE /\ text' = [text EXCEPT ![w] = t]
                /\ Returned(w)
                /\ UNCHANGED <<delivered, answer>>
    /\ UNCHANGED <<active, listener, configVars, recorderVars, relSeen>>
    /\ UNCHANGED <<stream, clock, silence_start, readT, lowRun>>

\* line 213: self.model.transcribe raises; nothing catches it and the thread dies
TranscribeRaises(w) ==
    /\ pc[w] = "transcribe"
    /\ pc' = [pc EXCEPT ![w] = "dead"]
    /\ UNCHANGED <<sessionVars, recorderVars, captureVars, cycleVars, relSeen>>

\* lines 340-343: the callback is called after this answer to Confirm.ask
Confirmed(yes) == yes

\* lines 340-343: Confirm.ask and what follows
Confirm(w, yes) ==
    /\ pc[w] = "confirm"
    /\ answer' = [answer EXCEPT ![w] = IF yes THEN "yes" ELSE "no"]
    /\ IF Confirmed(yes) THEN CallOnText(w, text[w]) ELSE UNCHANGED delivered
    /\ Returned(w)
    /\ UNCHANGED text
    /\ UNCHANGED <<active, listener, configVars, recorderVars, relSeen>>
    /\ UNCHANGED <<stream, clock, silence_start, readT, lowRun>>

\* f without the entry of thread w: the younger threads move down one slot
Without(f, w, free) ==
    [v \in Workers |-> IF v < w THEN f[v]
                       ELSE IF v + 1 \in Workers THEN f[v + 1]
                       ELSE free]

\* the finished thread is discarded; the slots list the threads left, oldest first
Reap(w) ==
    /\ pc[w] \in {"done", "dead"}
    /\ pc' = Without(pc, w, "none")
    /\ stream' = Without(stream, w, "none")
    /\ clock' = Without(clock, w, 0)
    /\ silence_start' = Without(silence_start, w, None)
    /\ readT' = Without(readT, w, 0)
    /\ stop' = Without(stop, w, "none")
    /\ nread' = Without(nread, w, 0)
    /\ lowRun' = Without(lowRun, w, 0)
    /\ audio' = Without(audio, w, Absent)
    /\ text' = Without(text, w, <<>>)
    /\ delivered' = Without(delivered, w, <<>>)
    /\ answer' = Without(answer, w, "none")
    /\ relSeen' = Without(relSeen, w, FALSE)
    /\ UNCHANGED <<sessionVars, recorderVars>>

(***************************************************************************)
(* Time                                                                    *)
(***************************************************************************)
\* one tick passes: only blocking reads take time
Tick ==
    /\ \E w \in Workers : pc[w] = "read"
    /\ \A w \in Workers : pc[w] # "check"
    /\ \A w \in Workers : pc[w] = "read" => readT[w] < chunk_duration
    /\ clock' = [w \in Workers |-> IF pc[w] = "read" THEN clock[w] + 1 ELSE clock[w]]
    /\ readT' = [w \in Workers |-> IF pc[w] = "read" THEN readT[w] + 1 ELSE readT[w]]
    /\ UNCHANGED <<sessionVars, recorderVars, cycleVars, relSeen>>
    /\ UNCHANGED <<pc, stream, silence_start, stop, nread, lowRun>>

(***************************************************************************)
(* The specification                                                       *)
(***************************************************************************)
Next ==
    \/ Start
    \/ \E key \in Keys : KeyPress(key)
    \/ \E key \in Keys : KeyRelease(key)
    \/ \E w \in Workers : WorkerStart(w)
    \/ \E w \in Workers : RecordOpen(w)
    \/ \E w \in Workers : RecordOpenFails(w)
    \/ \E w \in Workers, level \in Levels : ReadChunk(w, level)
    \/ \E w \in Workers : ReadFails(w)
    \/ \E w \in Workers : CheckContinue(w)
    \/ \E w \in Workers : Finally(w)
    \/ \E w \in Workers : ReturnJoin(w)
    \/ \E w \in Workers, raw \in RawTexts : Transcribe(w, raw)
    \/ \E w \in Workers : TranscribeRaises(w)
    \/ \E w \in Workers, yes \in BOOLEAN : Confirm(w, yes)
    \/ \E w \in Workers : Reap(w)
    \/ Tick

Spec == Init /\ [][Next]_vars

\* the session is also stopped
NextStop ==
    \/ Next
    \/ StopDeactivate
    \/ StopListener

SpecStop == Init /\ [][NextStop]_vars

(***************************************************************************)
(* Scenario A: the default configuration, the key pressed and held, and a  *)
(* device that produces ScenarioChunks chunks of 0.1 s, all at level 50;   *)
(* the device, the recognition model and the prompt do not fail.           *)
(***************************************************************************)
ScenarioChunks == 20
ScenarioLevels == {50}

InitScenarioA ==
    /\ cfg = DefaultConfig
    /\ probe = NoProbe
    /\ Constructed

NextScenarioA ==
    \/ Start
    \/ \E key \in Keys : KeyPress(key)
    \/ \E w \in Workers : WorkerStart(w)
    \/ \E w \in Workers : RecordOpen(w)
    \/ \E w \in Workers, level \in ScenarioLevels :
           nread[w] < ScenarioChunks /\ ReadChunk(w, level)
    \/ \E w \in Workers : CheckContinue(w)
    \/ \E w \in Workers : Finally(w)
    \/ \E w \in Workers : ReturnJoin(w)
    \/ \E w \in Workers, raw \in RawTexts : Transcribe(w, raw)
    \/ \E w \in Workers, yes \in BOOLEAN : Confirm(w, yes)
    \/ \E w \in Workers : Reap(w)
    \/ Tick

SpecScenarioA == InitScenarioA /\ [][NextScenarioA]_vars

(***************************************************************************)
(* _matches_hotkey called with a configured trigger and a key event        *)
(***************************************************************************)
right_shift == <<"r","i","g","h","t","_","s","h","i","f","t">>
right_space_shift == <<"r","i","g","h","t"," ","s","h","i","f","t">>
left_shift == <<"l","e","f","t","_","s","h","i","f","t">>
shift_r == <<"s","h","i","f","t","_","r">>
shift_l == <<"s","h","i","f","t","_","l">>
shift == <<"s","h","i","f","t">>

\* configured values of push_to_talk_key
Hotkeys ==
    { right_shift, right_space_shift, <<"R","i","g","h","t","_","S","h","i","f","t">>,
      left_shift, shift_r, shift, <<"a">> }

\* key events: named keys, character keys, and a KeyCode whose char is None
HotkeyEvents ==
    { NamedKey(shift_r), NamedKey(shift_l), NamedKey(right_shift),
      NamedKey(left_shift), NamedKey(shift),
      CharKey(<<"a">>), CharKey(<<"A">>), CharKey(<<"r">>), CharKey(<<>>) }

InitHotkey ==
    /\ cfg = BoundedConfig
    /\ probe \in [hotkey : Hotkeys, key : HotkeyEvents, result : {"none"}]
    /\ Constructed

\* self._matches_hotkey(key) with self.config.push_to_talk_key = probe.hotkey
MatchProbe ==
    /\ probe.result = "none"
    /\ probe' = [probe EXCEPT !.result =
                     IF matches_hotkey(probe.hotkey, probe.key) THEN "yes" ELSE "no"]
    /\ UNCHANGED <<cfg, auto_submit, integration_mode, active, listener, recording>>
    /\ UNCHANGED <<recorderVars, pc, captureVars, cycleVars, relSeen>>

NextHotkey == MatchProbe

SpecHotkey == InitHotkey /\ [][NextHotkey]_vars

(***************************************************************************)
(* The session and its workers                                             *)
(***************************************************************************)
\* thread slots in use
SlotsUsed == Cardinality({w \in Workers : pc[w] # "none"})

\* the worker has finished, normally or with an exception
Finished(w) == pc[w] \in {"done", "dead"}

\* the silence run of worker w has expired (line 156)
RunExpired(w) ==
    silence_start[w] # None /\ clock[w] - silence_start[w] > silence_duration

\* C1: at most one capture+transcribe+delivery worker (a started
\* _record_and_transcribe that has not returned) is active in every reachable
\* state.
C1_AtMostOneWorker == Cardinality(LiveWorkers) <= 1

\* C2: once a matching release has come after the press that started a cycle
\* and before its capture ended, the capture stops at the iteration boundary:
\* the continue-signal check of that worker leaves the loop and does not go
\* on to read another chunk.
C2_ReleaseStopsCapture ==
    [][\A w \in Workers :
          (pc[w] = "check" /\ relSeen[w] /\ pc'[w] \notin {"check", "none"})
              => pc'[w] = "finally"]_vars

\* C3: a matching release does not return the session to Idle: as long as the
\* cycle started by the accepted press is in flight, the is-recording flag
\* stays set.
C3_RecordingUntilCycleDone == \A w \in Workers : Live(w) => recording

\* C4: whenever a cycle's worker has finished, by any path, and no other
\* worker is in flight, the session is Idle, so that the next matching press
\* starts a new cycle.
C4_FinishedMeansIdle ==
    (LiveWorkers = {} /\ \E w \in Workers : Finished(w)) => ~recording

\* C5: in every cycle the callback is invoked at most once, and only with the
\* non-empty text the transcription returned; a cycle without text makes no
\* callback invocation.
C5_CallbackOnceNonEmpty ==
    \A w \in Workers :
        /\ Len(delivered[w]) <= 1
        /\ delivered[w] # <<>> => (text[w] # <<>> /\ delivered[w] = <<text[w]>>)

\* C5: a cycle has delivered its text
C5_Witness ==
    \E w \in Workers : pc[w] = "done" /\ delivered[w] = << <<"h", "i">> >>

\* C6: a matching press while the is-recording flag is set is a no-op: the
\* step changes nothing, and no step taken while the flag is set starts a
\* worker.
C6_PressWhileRecordingIsNoOp ==
    [][recording =>
          /\ SlotsUsed' <= SlotsUsed
          /\ \A key \in MatchingKeys : KeyPress(key) => UNCHANGED vars]_vars

\* C6: the flag is set, the listener runs and the cycle is in flight
C6_Witness ==
    recording /\ active /\ listener = "running" /\ LiveWorkers # {} /\ FreeSlots # {}

\* C7: the callback has been invoked in a cycle only if auto-deliver is on, or
\* integration mode is on, or the user answered yes; after a declined
\* confirmation the callback has not been invoked.
C7_DeliveryGate ==
    \A w \in Workers :
        /\ delivered[w] # <<>> => (auto_submit \/ integration_mode \/ answer[w] = "yes")
        /\ answer[w] # "none" => (~auto_submit /\ ~integration_mode)
        /\ answer[w] = "no" => delivered[w] = <<>>

\* C7: the user has declined and the cycle is over without a callback
C7_Witness ==
    \E w \in Workers :
        pc[w] = "done" /\ answer[w] = "no" /\ text[w] # <<>> /\ delivered[w] = <<>>

(***************************************************************************)
(* The capture loop                                                        *)
(***************************************************************************)
\* C8: a capture never runs longer than max_recording_time plus one chunk
\* read: every read starts at an elapsed time of at most max_recording_time
\* and the loop is left at most one chunk read later; a capture that saw no
\* release and whose last chunk was loud has stopped by the max-duration path.
C8_CaptureBounded ==
    \A w \in Workers :
        /\ clock[w] <= max_recording_time + chunk_duration
        /\ pc[w] = "read" => clock[w] - readT[w] <= max_recording_time
        /\ (pc[w] = "finally" /\ stop[w] # "error" /\ ~relSeen[w] /\ lowRun[w] = 0)
               => stop[w] = "max"

\* C8: key held, loud audio, stopped by the max-duration path one chunk read
\* after the limit
C8_Witness ==
    \E w \in Workers :
        /\ pc[w] = "finally" /\ stop[w] = "max" /\ ~relSeen[w] /\ lowRun[w] = 0
        /\ clock[w] = max_recording_time + chunk_duration

\* C9, as claimed: once the elapsed time has reached max_recording_time the
\* capture stops by the max-duration path only, never by the silence or the
\* release path.
C9_MaxAlwaysWins ==
    \A w \in Workers :
        (pc[w] = "finally" /\ stop[w] \in {"silence", "release"})
            => clock[w] < max_recording_time

\* C9, amended: the max-duration condition (elapsed time strictly greater than
\* max_recording_time) is evaluated first in an iteration, before the chunk is
\* read; after the chunk is read the silence run is evaluated, then the
\* continue-signal.  A max-duration stop has the limit exceeded; a silence or
\* release stop ends an iteration that began with the limit not exceeded; a
\* release stop has no expired silence run.
C9_StopOrder ==
    \A w \in Workers :
        pc[w] = "finally" =>
            /\ stop[w] = "max" => clock[w] > max_recording_time
            /\ stop[w] = "silence" =>
                   /\ clock[w] - chunk_duration <= max_recording_time
                   /\ lowRun[w] >= 1 /\ RunExpired(w)
            /\ stop[w] = "release" =>
                   /\ clock[w] - chunk_duration <= max_recording_time
                   /\ ~RunExpired(w)

\* C9: a release stop in an iteration in which the limit had been reached
C9_Witness ==
    \E w \in Workers :
        pc[w] = "finally" /\ stop[w] = "release" /\ clock[w] >= max_recording_time

\* C10: a capture stops by the silence path only after a run of consecutive
\* sub-threshold chunks lasting longer than silence_duration: a chunk at or
\* above the threshold resets the run, so [low]*k + [high] + [low]*k with
\* k * chunk_duration < silence_duration never stops by the silence path.
C10_LoudChunkResetsRun ==
    \A w \in Workers :
        /\ (pc[w] = "finally" /\ stop[w] = "silence")
               => lowRun[w] * chunk_duration > silence_duration
        /\ (InCapture(w) /\ lowRun[w] = 0) => silence_start[w] = None

\* C10: low, high, low has been read and the capture goes on
C10_Witness ==
    \E w \in Workers :
        /\ pc[w] = "check" /\ nread[w] = 3 /\ lowRun[w] = 1
        /\ silence_start[w] = clock[w]

\* the buffer of n chunks
Buffer(n) == Bytes([i \in 1..n |-> Chunk])

\* C11, as claimed: in scenario A (20 chunks at level 50 spanning 2.0 s, key
\* held, default configuration) the capture stops by the silence path and
\* returns the 20 concatenated chunks.
C11_ScenarioA_Returns20 ==
    \A w \in Workers :
        /\ pc[w] = "finally" => stop[w] = "silence"
        /\ pc[w] = "transcribe" => audio[w] = Buffer(ScenarioChunks)

\* C11, amended: in scenario A the capture stops by the silence path, never by
\* the max-duration path, as soon as a chunk has been read more than 1.5 s
\* after the end of the first read: that is the 17th chunk, read 1.7 s after
\* the start, and the capture returns the 17 chunks read so far.
C11_ScenarioA_SilenceStop ==
    \A w \in Workers :
        /\ nread[w] <= 17
        /\ pc[w] = "finally" => (stop[w] = "silence" /\ nread[w] = 17 /\ clock[w] = 17)
        /\ pc[w] = "transcribe" => audio[w] = Buffer(17)

\* C11: the capture of scenario A has returned its buffer
C11_Witness ==
    \E w \in Workers : pc[w] = "transcribe" /\ Len(audio[w].data) = 17 /\ nread[w] = 17

\* C12, as claimed: a capture returns absent if and only if it read zero
\* chunks, and otherwise a non-empty buffer.
C12_AbsentIffNoChunks ==
    \A w \in Workers :
        pc[w] \in {"transcribe", "done"} =>
            /\ audio[w].some <=> nread[w] > 0
            /\ audio[w].some => audio[w].data # <<>>

C14_OneStreamOneModel ==
    /\ Cardinality({w \in Workers : stream[w] = "open"}) <= 1
    /\ Cardinality({w \in Workers : pc[w] = "transcribe"}) <= 1

\* the worker died in the recognition step: it had a buffer to transcribe
DiedTranscribing(w) == pc[w] = "dead" /\ Truthy(audio[w])

\* C17, as claimed: a failure of the recognition step is caught; no worker
\* dies of it.
C17_TranscribeErrorsCaught == \A w \in Workers : ~DiedTranscribing(w)

\* C18, as claimed: while a capture is running, no step sets the
\* continue-signal from false back to true.
C18_SignalOnlyFalls ==
    [][(has_should_continue /\ ~should_continue_recording
            /\ \E w \in Workers : InCapture(w))
          => ~should_continue_recording']_vars

\* C19, as claimed: the buffer a capture returns is the concatenation of the
\* chunks that same call read.
C19_BufferIsOwnChunks ==
    \A w \in Workers : pc[w] = "transcribe" => audio[w] = Buffer(nread[w])

\* C20: the is-recording flag is set only by a step of the key-press handler
\* for a matching key and cleared only by a step of the key-release handler
\* for a matching key; no step of a worker changes it.
C20_FlagOnlyByHandlers ==
    [][/\ (~recording /\ recording') => \E key \in MatchingKeys : KeyPress(key)
       /\ (recording /\ ~recording') => \E key \in MatchingKeys : KeyRelease(key)]_vars

\* C20: a worker has run its whole cycle, the text is delivered and the flag
\* is still set
C20_Witness ==
    \E w \in Workers : pc[w] = "done" /\ delivered[w] # <<>> /\ recording

\* a step of worker w other than a failure of the device or of the model
Proceeds(w) ==
    \/ WorkerStart(w)
    \/ RecordOpen(w)
    \/ \E level \in Levels : ReadChunk(w, level)
    \/ CheckContinue(w)
    \/ Finally(w)
    \/ ReturnJoin(w)
    \/ \E raw \in RawTexts : Transcribe(w, raw)
    \/ \E yes \in BOOLEAN : Confirm(w, yes)

\* worker w can take its next step, or is blocked in a read that time or the
\* step of another worker lets go on
NotAborted(w) ==
    \/ ENABLED Proceeds(w)
    \/ /\ pc[w] = "read"
       /\ \/ ENABLED Tick
          \/ \E v \in Workers \ {w} : ENABLED Proceeds(v)

SideSuffix(side) == IF side = <<"r","i","g","h","t">> THEN "r" ELSE "l"

\* the event name <base>_<r|l> of a configured two-part name <side> <base>
AliasOf(hotkey) ==
    LET parts == Split(Replace(Lower(hotkey), "_", " "))
    IN  IF Len(parts) = 2 /\ parts[1] \in {<<"r","i","g","h","t">>, <<"l","e","f","t">>}
        THEN {parts[2] \o <<"_", SideSuffix(parts[1])>>}
        ELSE {}

\* C16, as claimed: with the trigger "right shift" the named events "shift_r"
\* and "right_shift" are accepted and "shift_l" is rejected; a configured
\* two-part name <side> <base> also matches the event name <base>_<r|l> of
\* the same side, and apart from the exact, case-insensitive match nothing
\* else matches.
C16_RightShiftAliases ==
    probe.result # "none" =>
        /\ (probe.hotkey = right_space_shift /\ probe.key.kind = "name") =>
               /\ probe.key.val \in {shift_r, right_shift} => probe.result = "yes"
               /\ probe.key.val = shift_l => probe.result = "no"
        /\ (probe.key.kind = "name" /\ probe.key.val \in AliasOf(probe.hotkey))
               => probe.result = "yes"
        /\ probe.result = "yes" =>
               \/ Lower(probe.key.val) = Lower(probe.hotkey)
               \/ probe.key.kind = "name" /\ probe.key.val \in AliasOf(probe.hotkey)

\* C16, amended: with the trigger "right_shift" the named events "shift_r" and
\* "right_shift" are accepted and "shift_l" is rejected; with the trigger
\* "right shift" (a space) "shift_r" is accepted and both "right_shift" and
\* "shift_l" are rejected.  An event matches if and only if its identity
\* equals the trigger as configured (case-insensitive) or it is the named
\* event <base>_<r|l> of a configured two-part name <side> <base>.
C16_HotkeyMatching ==
    probe.result # "none" =>
        /\ (probe.hotkey = right_shift /\ probe.key.kind = "name") =>
               /\ probe.key.val \in {shift_r, right_shift} => probe.result = "yes"
               /\ probe.key.val = shift_l => probe.result = "no"
        /\ (probe.hotkey = right_space_shift /\ probe.key.kind = "name") =>
               /\ probe.key.val = shift_r => probe.result = "yes"
               /\ probe.key.val \in {right_shift, shift_l} => probe.result = "no"
        /\ probe.result = "yes" <=>
               \/ probe.key.val # <<>> /\ Lower(probe.key.val) = Lower(probe.hotkey)
               \/ probe.key.kind = "name" /\ probe.key.val \in AliasOf(probe.hotkey)

\* C16: the trigger "right shift" has been tried on the named event
\* "right_shift" and has rejected it
C16_Witness ==
    /\ probe.hotkey = right_space_shift
    /\ probe.key = NamedKey(right_shift)
    /\ probe.result = "no"

\* C21, as claimed: a capture honours a cleared continue-signal or a silence
\* stop only after it has read a chunk, and a capture that has read a chunk
\* returns a buffer that is present and holds at least one chunk.
C21_FirstChunkKept ==
    \A w \in Workers :
        /\ (pc[w] = "finally" /\ stop[w] \in {"silence", "release"}) => nread[w] >= 1
        /\ (pc[w] \in {"transcribe", "done"} /\ nread[w] >= 1) =>
               (audio[w].some /\ Len(audio[w].data) >= 1)

====
